---- MODULE Spec2Model ----
(***************************************************************************)
(* A model of exporter/exporterwrapper/exporterwrapper.go: the PostgreSQL  *)
(* execution-plan receiver (PostgresReceiver, parseExecutionPlan,          *)
(* parseChildPlan and their helpers) and the OpenCensus exporter wrapper   *)
(* (ProcessTraceData, PushOcProtoSpansToOCTraceExporter).                  *)
(*                                                                         *)
(* Representation of the inputs.                                           *)
(*  - A decoded JSON value (Go's interface{} after json.Unmarshal) is a    *)
(*    record [t, v]: t is the dynamic type ("number" = float64, "string",  *)
(*    "object" = map[string]interface{}, "array" = []interface{}, "null"   *)
(*    = nil); v is the payload.  An object's payload is a function from    *)
(*    its keys to JSON values.                                             *)
(*  - float64 values are dyadic rationals, so the float arithmetic of the  *)
(*    code is exact on them: "start timestamp" and "duration" are counted  *)
(*    in 1/TsDenom seconds, "Actual Startup Time" and "Actual Total Time"  *)
(*    in 1/OffsetDenom milliseconds; the other numbers are whole.          *)
(*  - A time.Time is [sec, nsec] with 0 <= nsec < NanosPerSec (what        *)
(*    time.Unix normalises to); a time.Duration is a count of nanoseconds. *)
(*  - A byte slice holding identifiers is the tuple of the uint64 values   *)
(*    it encodes: a span id <<v>>, a trace id <<v1, v2>>, nil <<>>.        *)
(*  - The process-wide random source is the stream rnd of the values that  *)
(*    successive rand.Uint64() calls return; k is the next position.       *)
(***************************************************************************)
EXTENDS Integers, Sequences, FiniteSets, TLC

VARIABLES
    \* --- conversion of one document (parseExecutionPlan) ---
    doc,          \* the decoded message handed to parseExecutionPlan
    rnd,          \* the values the random source returns during the call
    out,          \* the outcome of the call: [panic, spans]
    ppc,          \* "ready" before the call, "done" after it
    \* --- the receiver (StartTraceReception / ProcessExecutionPlan) ---
    started,      \* polling goroutines spawned by StartTraceReception
    proc,         \* "running", "fatal" (log.Fatal) or "panicked"
    dbOpen,       \* FALSE once StopTraceReception closed the database
    \* per polling goroutine l (the l-th call of StartTraceReception):
    tickPending,  \* the one-slot channel of its time.Tick holds a tick
    running,      \* its executions of ProcessExecutionPlan in flight
    execPc,       \* position of its execution: "idle", "query", "next", "sink"
    nRows,        \* rows returned so far by rows.Next() in its execution
    rec,          \* the row scanned last in its execution
    batch,        \* td.Spans of its call to ProcessTraceData in flight
    sinkCalls,    \* its calls of nextProcessor.ProcessTraceData in flight
    \* --- the exporter wrapper (PushOcProtoSpansToOCTraceExporter) ---
    td,           \* td.Spans of the batch being pushed
    conv,         \* per span: does ProtoSpanToOCSpanData succeed on it
    idx,          \* the next index of the range loop over td.Spans
    exported,     \* what ocExporter.ExportSpan received, in order
    goodSpans,    \* the local goodSpans
    errs,         \* the local errs
    ret,          \* "none" (not returned), "nil", "error" or "panic"
    pushPc        \* "loop", "tail" (after the loop) or "done"

parseVars == <<doc, rnd, out, ppc>>
recvVars == <<started, proc, dbOpen, tickPending, running, execPc, nRows, rec,
              batch, sinkCalls>>
pushVars == <<td, conv, idx, exported, goodSpans, errs, ret, pushPc>>
vars == <<parseVars, recvVars, pushVars>>

-----------------------------------------------------------------------------
(* Bounds of the model.                                                    *)

MaxNodes == 3      \* plan trees have at most this many nodes
MaxOffset == 1     \* largest startup/total offset, in 1/OffsetDenom ms
MaxDuration == 1   \* largest "duration", in 1/TsDenom s
MaxId == 3         \* rand.Uint64() returns 0..MaxId
MaxRows == 2       \* rows returned by one query
MaxLoops == 2      \* calls of StartTraceReception
MaxBatch == 3      \* spans in a batch handed to the exporter wrapper

(* Units.                                                                  *)

TsDenom == 4                \* timestamps are counted in quarter seconds
OffsetDenom == 128          \* offsets are counted in 1/128 ms
NanosPerSec == 1000000000   \* the 1e9 of timestampToTime
NanosPerMs == 1000000       \* time.Millisecond, in nanoseconds

-----------------------------------------------------------------------------
(* Decoded JSON values.                                                    *)

Num(n) == [t |-> "number", v |-> n]
Str(s) == [t |-> "string", v |-> s]
Obj(m) == [t |-> "object", v |-> m]
Arr(s) == [t |-> "array", v |-> s]
Null == [t |-> "null", v |-> 0]

\* m[key] of a Go map[string]interface{}: nil when the key is absent.
Lookup(m, key) == IF key \in DOMAIN m THEN m[key] ELSE Null

\* x.(float64), x.(string), x.(map[string]interface{}), x.([]interface{}):
\* the assertion panics unless the dynamic type is the asserted one.
IsFloat(x) == x.t = "number"
IsString(x) == x.t = "string"
IsMap(x) == x.t = "object"
IsSlice(x) == x.t = "array"

\* int64(f) of a float64: truncation toward zero; a/b is the float.
TruncDiv(a, b) == IF a >= 0 THEN a \div b ELSE 0 - ((0 - a) \div b)

-----------------------------------------------------------------------------
(* time.Time, time.Duration.                                               *)

\* time.Unix(sec, nsec): nsec outside [0, 1e9) is carried into sec.
Unix(sec, nsec) ==
    [sec |-> sec + (nsec \div NanosPerSec), nsec |-> nsec % NanosPerSec]

\* t.Add(d), d in nanoseconds.
Add(t, d) == Unix(t.sec, t.nsec + d)

\* t.After(u), t.Equal(u).
After(t, u) == t.sec > u.sec \/ (t.sec = u.sec /\ t.nsec > u.nsec)
Equal(t, u) == t.sec = u.sec /\ t.nsec = u.nsec

\* timestampToTime(timestamp), timestamp = q / TsDenom seconds:
\* sec := int64(timestamp); nsec := int64((timestamp - float64(sec)) * 1e9).
timestampToTime(q) ==
    LET sec == TruncDiv(q, TsDenom)
        \* (q/TsDenom - sec) * 1e9; TsDenom divides 1e9, the product is whole
        nsec == (q - sec * TsDenom) * (NanosPerSec \div TsDenom)
    IN  Unix(sec, nsec)

\* time.Duration(offset_ms * float64(time.Millisecond)), offset_ms = q /
\* OffsetDenom milliseconds: the float product, truncated toward zero.
OffsetToDuration(q) == TruncDiv(q * NanosPerMs, OffsetDenom)

\* internal.TimeToTimestamp(t): the protobuf timestamp of t (t at or after
\* the epoch, as every time of the model is).
TimeToTimestamp(t) == [seconds |-> t.sec, nanos |-> t.nsec]

-----------------------------------------------------------------------------
(* Identifiers and attribute values.                                       *)

\* A span id left at the zero bytes make([]byte, 8) returns.
generateSpanIdUnset(r, k) == <<0>>

\* generateTraceId(): two draws, generateSpanId(): one draw.
generateTraceId(r, k) == <<r[k], r[k + 1]>>

\* The bytes an id of uint64 values holds.  Line 245: make([]byte, 16) gives
\* the trace id a capacity equal to its length.
BytesOf(id) == 8 * Len(id)
generateSpanId(r, k) == <<r[k]>>

\* The position of the random stream after generateSpanId() drew at k.
AfterSpanIdDraw(k) == k + 1

stringToAttributeValue(val) == [StringValue |-> val]
int64ToAttributeValue(val) == [IntValue |-> val]

-----------------------------------------------------------------------------
(* parseChildPlan.                                                         *)
(*                                                                         *)
(* The result is [panic, start, spans, k]: whether a type assertion        *)
(* failed, the returned span_start_time, the returned spans, and the       *)
(* position of the random stream after the call.  A span carries the       *)
(* fields of tracepb.Span that the code sets and one auxiliary field,      *)
(* node: the place in the document the span was derived from (<<>> for the *)
(* synthesized root span, <<1>> for the top-level plan node, p \o <<i>>    *)
(* for the i-th child of the node at p).  The code never reads it.         *)

Panicked == [panic |-> TRUE, start |-> Unix(0, 0), spans |-> <<>>, k |-> 0]

\* Lines 302-304: the start moves down to a child's start that is earlier.
EarlierStart(span_start_time, child_span_start_time) ==
    IF After(span_start_time, child_span_start_time)
    THEN child_span_start_time
    ELSE span_start_time

\* The end left as computed, equal to the start or not.
StrictEndNoBump(span_end_time, span_start_time) == span_end_time

\* Lines 312-314: an end equal to the start is moved one nanosecond later.
StrictEnd(span_end_time, span_start_time) ==
    IF Equal(span_end_time, span_start_time)
    THEN Add(span_end_time, 1)
    ELSE span_end_time

\* The caller's own parent handed down instead of the node's span id.
ChildParentSpanIdInherited(span_id, parent_span_id) == parent_span_id

\* Line 301: the parent span id handed to the recursive call for a child.
ChildParentSpanId(span_id, parent_span_id) == span_id

\* The node's own span ahead of the spans of its children.
EmitSpansOwnFirst(child_spans, span) == <<span>> \o child_spans

\* Lines 305 and 330: the spans of the children first, the node's own last.
EmitSpans(child_spans, span) == Append(child_spans, span)

\* Lines 317-328: the attribute map of a plan node.
NodeAttributes(rows, operation, table) ==
    LET keys == {"Rows Fetched"}
                \cup (IF operation.t # "null" THEN {"Operation"} ELSE {})
                \cup (IF table.t # "null" THEN {"Table Name"} ELSE {})
    IN  [key \in keys |->
            CASE key = "Rows Fetched" ->
                     int64ToAttributeValue(TruncDiv(rows.v, 1))
              [] key = "Operation" -> stringToAttributeValue(operation.v)
              [] OTHER -> stringToAttributeValue(table.v)]

RECURSIVE parseChildPlan(_, _, _, _, _, _, _)
RECURSIVE parseChildren(_, _, _, _, _, _, _)

\* Lines 300-306: the range loop over the children, from child i on; acc is
\* [panic, start, spans, k] after the children before i.
parseChildren(children, i, trace_start_time, trace_id, span_id, r, acc) ==
    IF i > Len(children)
    THEN acc.res
    ELSE LET c == parseChildPlan(children[i], trace_start_time, trace_id,
                                 span_id, r, acc.res.k, acc.node \o <<i>>)
         IN  IF c.panic
             THEN Panicked
             ELSE parseChildren(children, i + 1, trace_start_time, trace_id,
                                span_id, r,
                                [node |-> acc.node,
                                 res |-> [panic |-> FALSE,
                                          start |-> EarlierStart(acc.res.start, c.start),
                                          spans |-> acc.res.spans \o c.spans,
                                          k |-> c.k]])

parseChildPlan(plan, trace_start_time, trace_id, parent_span_id, r, k, node) ==
    IF ~IsMap(plan)
    THEN Panicked
    ELSE
    LET plan_map == plan.v
        span_id == generateSpanId(r, k)
        node_type == Lookup(plan_map, "Node Type")
        start_offset_ms == Lookup(plan_map, "Actual Startup Time")
        plans == Lookup(plan_map, "Plans")
        end_offset_ms == Lookup(plan_map, "Actual Total Time")
        rows == Lookup(plan_map, "Actual Rows")
        operation == Lookup(plan_map, "Operation")
        table == Lookup(plan_map, "Relation Name")
    IN
    IF ~IsString(node_type) \/ ~IsFloat(start_offset_ms)
    THEN Panicked
    ELSE
    LET own == [panic |-> FALSE,
                start |-> Add(trace_start_time,
                              OffsetToDuration(start_offset_ms.v)),
                spans |-> <<>>,
                k |-> AfterSpanIdDraw(k)]
        kids == IF plans.t = "null"
                THEN own
                ELSE IF ~IsSlice(plans)
                THEN Panicked
                ELSE parseChildren(plans.v, 1, trace_start_time, trace_id,
                                   ChildParentSpanId(span_id, parent_span_id),
                                   r, [node |-> node, res |-> own])
    IN
    IF kids.panic
       \/ ~IsFloat(end_offset_ms)
       \/ ~IsFloat(rows)
       \/ (operation.t # "null" /\ ~IsString(operation))
       \/ (table.t # "null" /\ ~IsString(table))
    THEN Panicked
    ELSE
    LET span_start_time == kids.start
        span_end_time ==
            StrictEnd(Add(trace_start_time, OffsetToDuration(end_offset_ms.v)),
                      span_start_time)
        span == [TraceId |-> trace_id,
                 TraceIdCap |-> BytesOf(trace_id),
                 SpanId |-> span_id,
                 ParentSpanId |-> parent_span_id,
                 Name |-> node_type.v,
                 StartTime |-> TimeToTimestamp(span_start_time),
                 EndTime |-> TimeToTimestamp(span_end_time),
                 Attributes |-> NodeAttributes(rows, operation, table),
                 node |-> node]
    IN  [panic |-> FALSE,
         start |-> span_start_time,
         spans |-> EmitSpans(kids.spans, span),
         k |-> kids.k]

-----------------------------------------------------------------------------
(* parseExecutionPlan: [panic, spans].                                     *)

RootAttributes(plan) ==
    [key \in {"query", "username", "session_username", "connection_id",
              "database_name"} |->
        CASE key = "query" -> stringToAttributeValue(plan["Query Text"].v)
          [] key = "connection_id" ->
                 int64ToAttributeValue(TruncDiv(plan["connection_id"].v, 1))
          [] OTHER -> stringToAttributeValue(plan[key].v)]

parseExecutionPlan(message, r) ==
    IF ~IsMap(message)
    THEN [panic |-> TRUE, spans |-> <<>>]
    ELSE
    LET plan == message.v
        trace_id == generateTraceId(r, 1)
        span_id == generateSpanId(r, 3)
    IN
    IF \/ ~IsFloat(Lookup(plan, "start timestamp"))
       \/ ~IsFloat(Lookup(plan, "duration"))
       \/ ~IsString(Lookup(plan, "Query Text"))
       \/ ~IsString(Lookup(plan, "username"))
       \/ ~IsString(Lookup(plan, "session_username"))
       \/ ~IsFloat(Lookup(plan, "connection_id"))
       \/ ~IsString(Lookup(plan, "database_name"))
    THEN [panic |-> TRUE, spans |-> <<>>]
    ELSE
    LET start_timestamp == plan["start timestamp"].v
        duration == plan["duration"].v
        start_time == timestampToTime(start_timestamp)
        end_time == timestampToTime(start_timestamp + duration)
        root_span == [TraceId |-> trace_id,
                      TraceIdCap |-> BytesOf(trace_id),
                      SpanId |-> span_id,
                      ParentSpanId |-> <<>>,
                      Name |-> "CloudSQLQuery",
                      StartTime |-> TimeToTimestamp(start_time),
                      EndTime |-> TimeToTimestamp(end_time),
                      Attributes |-> RootAttributes(plan),
                      node |-> <<>>]
        sub == parseChildPlan(Lookup(plan, "Plan"), start_time, trace_id,
                              span_id, r, AfterSpanIdDraw(3), <<1>>)
    IN  IF sub.panic
        THEN [panic |-> TRUE, spans |-> <<>>]
        ELSE [panic |-> FALSE, spans |-> Append(sub.spans, root_span)]

-----------------------------------------------------------------------------
(* The documents the conversion is run on.                                 *)

Offsets == (0 - 1) .. MaxOffset
Durations == (0 - 1) .. MaxDuration
StartTimestamps == {3, 4}      \* 0.75 s and 1 s after the epoch
IdSpace == 0 .. MaxId

\* A plan node; a node without children has no "Plans" key.
PlanNode(startup, total, children) ==
    LET own == ("Node Type" :> Str("Seq Scan"))
               @@ ("Actual Startup Time" :> Num(startup))
               @@ ("Actual Total Time" :> Num(total))
               @@ ("Actual Rows" :> Num(100))
               @@ ("Relation Name" :> Str("users"))
    IN  Obj(IF children = <<>> THEN own ELSE own @@ ("Plans" :> Arr(children)))

RECURSIVE TreesOfSize(_, _)
RECURSIVE ForestsOfSize(_, _)

\* The plan trees of exactly n nodes, and the sequences of plan trees of k
\* nodes in all, with startup and total offsets in O.
TreesOfSize(n, O) ==
    IF n = 0
    THEN {}
    ELSE {PlanNode(s, t, f) : s \in O, t \in O, f \in ForestsOfSize(n - 1, O)}

ForestsOfSize(k, O) ==
    IF k = 0
    THEN {<<>>}
    ELSE UNION {{<<t>> \o f : t \in TreesOfSize(i, O),
                              f \in ForestsOfSize(k - i, O)} : i \in 1 .. k}

Trees(O, max) == UNION {TreesOfSize(n, O) : n \in 1 .. max}

Document(start_timestamp, duration, plan) ==
    Obj(("start timestamp" :> Num(start_timestamp))
        @@ ("duration" :> Num(duration))
        @@ ("Query Text" :> Str("SELECT 1"))
        @@ ("username" :> Str("svc"))
        @@ ("session_username" :> Str("svc"))
        @@ ("connection_id" :> Num(42))
        @@ ("database_name" :> Str("app"))
        @@ ("Plan" :> plan))

RECURSIVE NodeCount(_)
RECURSIVE NodeCountAll(_, _)
NodeCountAll(children, i) ==
    IF i > Len(children)
    THEN 0
    ELSE NodeCount(children[i]) + NodeCountAll(children, i + 1)
NodeCount(plan) ==
    1 + (IF "Plans" \in DOMAIN plan.v THEN NodeCountAll(plan.v["Plans"].v, 1) ELSE 0)

\* The plan tree of a shape with the offsets of its nodes, numbered in
\* pre-order from k, set to a[k] = <<startup, total>>: [plan, k].
RECURSIVE WithOffsets(_, _, _)
RECURSIVE WithOffsetsAll(_, _, _, _)
WithOffsetsAll(children, i, a, k) ==
    IF i > Len(children)
    THEN [plans |-> <<>>, k |-> k]
    ELSE LET c == WithOffsets(children[i], a, k)
             rest == WithOffsetsAll(children, i + 1, a, c.k)
         IN  [plans |-> <<c.plan>> \o rest.plans, k |-> rest.k]
WithOffsets(plan, a, k) ==
    LET kids == IF "Plans" \in DOMAIN plan.v
                THEN WithOffsetsAll(plan.v["Plans"].v, 1, a, k + 1)
                ELSE [plans |-> <<>>, k |-> k + 1]
    IN  [plan |-> PlanNode(a[k][1], a[k][2], kids.plans), k |-> kids.k]

\* The tree shapes for the timing rules.
TimedShapes == Trees({0}, MaxNodes)

\* Documents for the identifier and ordering rules: every tree shape.
ShapedDocuments == {Document(4, 1, p) : p \in Trees({1}, MaxNodes)}

\* The identifiers are drawn 1, 2, 3, ... : all distinct.
CountingStream(n) == [i \in 1 .. n |-> i]

-----------------------------------------------------------------------------
(* Variables a specification does not use stay at these values.            *)

ParseIdle == doc = Null /\ rnd = <<>> /\ out = Null /\ ppc = "off"
Loops == 1 .. MaxLoops
RecvIdle ==
    /\ started = 0 /\ proc = "running" /\ dbOpen = TRUE
    /\ tickPending = [l \in Loops |-> FALSE]
    /\ running = [l \in Loops |-> 0]
    /\ execPc = [l \in Loops |-> "idle"]
    /\ nRows = [l \in Loops |-> 0]
    /\ rec = [l \in Loops |-> <<"none", Null>>]
    /\ batch = [l \in Loops |-> <<>>]
    /\ sinkCalls = [l \in Loops |-> 0]
PushIdle ==
    /\ td = <<>> /\ conv = <<>> /\ idx = 0 /\ exported = <<>>
    /\ goodSpans = <<>> /\ errs = <<>> /\ ret = "none" /\ pushPc = "off"

-----------------------------------------------------------------------------
(* The conversion of one document, as a pure function of the document and  *)
(* of the random stream.                                                   *)

Parse ==
    /\ ppc = "ready"
    /\ out' = parseExecutionPlan(doc, rnd)
    /\ ppc' = "done"
    /\ UNCHANGED <<doc, rnd, recvVars, pushVars>>

\* Every plan tree over Offsets under one document header, and every
\* header over a one-node plan.
InitTimes ==
    /\ \/ \E shape \in TimedShapes :
              \E a \in [1 .. NodeCount(shape) -> Offsets \X Offsets] :
                  doc = Document(4, 1, WithOffsets(shape, a, 1).plan)
       \/ \E ts \in StartTimestamps, d \in Durations :
              doc = Document(ts, d, PlanNode(0, 1, <<>>))
    /\ rnd = CountingStream(3 + NodeCount(doc.v["Plan"]))
    /\ out = Null
    /\ ppc = "ready"
    /\ RecvIdle /\ PushIdle

InitIds ==
    /\ doc \in ShapedDocuments
    /\ rnd \in [1 .. 3 + NodeCount(doc.v["Plan"]) -> IdSpace]
    /\ out = Null
    /\ ppc = "ready"
    /\ RecvIdle /\ PushIdle

NextParse == Parse

SpecTimes == InitTimes /\ [][NextParse]_vars
SpecIds == InitIds /\ [][NextParse]_vars

-----------------------------------------------------------------------------
(* Properties of the conversion.                                           *)

Spans == out.spans
Converted == ppc = "done" /\ ~out.panic
SpanIndices == 1 .. Len(Spans)
NodeSpanIndices == {i \in SpanIndices : Spans[i].node # <<>>}

\* Order and arithmetic of protobuf timestamps.
TsBefore(a, b) ==
    a.seconds < b.seconds \/ (a.seconds = b.seconds /\ a.nanos < b.nanos)
TsPlusNanos(a, n) ==
    [seconds |-> a.seconds + ((a.nanos + n) \div NanosPerSec),
     nanos |-> (a.nanos + n) % NanosPerSec]

\* The plan node of the document at a place, its parent's place, and the
\* places of the plan tree in post-order.
RECURSIVE PlanAt(_)
PlanAt(place) ==
    IF Len(place) = 1
    THEN doc.v["Plan"]
    ELSE PlanAt(SubSeq(place, 1, Len(place) - 1)).v["Plans"].v[place[Len(place)]]
ParentPlace(place) == SubSeq(place, 1, Len(place) - 1)
IsChildPlace(c, place) == Len(c) = Len(place) + 1 /\ ParentPlace(c) = place

RECURSIVE PostOrder(_, _)
RECURSIVE PostOrderAll(_, _, _)
PostOrderAll(children, i, place) ==
    IF i > Len(children)
    THEN <<>>
    ELSE PostOrder(children[i], place \o <<i>>)
         \o PostOrderAll(children, i + 1, place)
PostOrder(plan, place) ==
    (IF "Plans" \in DOMAIN plan.v
     THEN PostOrderAll(plan.v["Plans"].v, 1, place)
     ELSE <<>>) \o <<place>>

\* The span derived from a place of the document.
SpanAt(place) == Spans[CHOOSE i \in SpanIndices : Spans[i].node = place]

\* The candidate own start of the node of a span: T0 + Actual Startup Time.
CandidateStart(span) ==
    TimeToTimestamp(
        Add(timestampToTime(doc.v["start timestamp"].v),
            OffsetToDuration(PlanAt(span.node).v["Actual Startup Time"].v)))

EqualOffsets(span) ==
    PlanAt(span.node).v["Actual Startup Time"].v
        = PlanAt(span.node).v["Actual Total Time"].v

NoChildStartsEarlier(span) ==
    \A j \in NodeSpanIndices :
        IsChildPlace(Spans[j].node, span.node)
            => ~TsBefore(Spans[j].StartTime, CandidateStart(span))

\* C1: every emitted span, plan-node spans and the synthesized root span
\* alike, ends strictly after it starts, whatever the offsets, the start
\* timestamp and the duration of the document.
C1_EverySpanEndsAfterItStarts ==
    Converted =>
        \A i \in SpanIndices : TsBefore(Spans[i].StartTime, Spans[i].EndTime)

\* C2: whenever a span names another span of the document as its parent
\* (the root span and the top-level plan node included), the parent starts
\* no later than the child.
C2_ParentStartsNoLaterThanChild ==
    Converted =>
        \A i, j \in SpanIndices :
            Spans[j].ParentSpanId = Spans[i].SpanId
                => ~TsBefore(Spans[j].StartTime, Spans[i].StartTime)

\* C4: a document of N plan nodes yields N + 1 spans: the plan nodes in
\* post-order (children in document order, a node after all its
\* descendants), then the synthesized root span.
C4_PostOrderThenRoot ==
    ppc = "done" =>
        /\ ~out.panic
        /\ Len(Spans) = NodeCount(doc.v["Plan"]) + 1
        /\ [i \in SpanIndices |-> Spans[i].node]
               = PostOrder(doc.v["Plan"], <<1>>) \o << <<>> >>

C4_Witness ==
    /\ Converted
    /\ \E i, j \in SpanIndices :
           Spans[i].node = <<1, 2>> /\ Spans[j].node = <<1>> /\ i < j

\* C5: the root span has no parent span id; every plan-node span has the
\* trace id of the root span and, as parent span id, the span id of the
\* span of its parent node (of the root span for the top-level node).
C5_ParentIsTheAncestorSpan ==
    Converted =>
        /\ SpanAt(<<>>).ParentSpanId = <<>>
        /\ \A i \in NodeSpanIndices :
               /\ Spans[i].TraceId = SpanAt(<<>>).TraceId
               /\ Spans[i].ParentSpanId = SpanAt(ParentPlace(Spans[i].node)).SpanId

C5_Witness ==
    /\ Converted
    /\ \E i \in SpanIndices :
           /\ Spans[i].node = <<1, 1, 1>>
           /\ Spans[i].ParentSpanId = SpanAt(<<1, 1>>).SpanId
           /\ Spans[i].ParentSpanId # SpanAt(<<1>>).SpanId
           /\ Spans[i].ParentSpanId # SpanAt(<<>>).SpanId

\* C8 as stated: every plan node whose Actual Startup Time equals its
\* Actual Total Time, with or without children, gets a span that ends
\* exactly one nanosecond after it starts.
C8_EqualOffsetsGiveOneNanosecond ==
    Converted =>
        \A i \in NodeSpanIndices :
            EqualOffsets(Spans[i])
                => Spans[i].EndTime = TsPlusNanos(Spans[i].StartTime, 1)

\* C8 amended: a plan node whose Actual Startup Time equals its Actual
\* Total Time and none of whose children's spans starts before the node's
\* own candidate start (every leaf is such a node) gets a span that starts
\* at the candidate start and ends exactly one nanosecond later.
C8_EqualOffsetsNoEarlierChild ==
    Converted =>
        \A i \in NodeSpanIndices :
            (EqualOffsets(Spans[i]) /\ NoChildStartsEarlier(Spans[i]))
                => /\ Spans[i].StartTime = CandidateStart(Spans[i])
                   /\ Spans[i].EndTime = TsPlusNanos(Spans[i].StartTime, 1)

C8_Witness ==
    /\ Converted
    /\ \E i, j \in NodeSpanIndices :
           /\ IsChildPlace(Spans[j].node, Spans[i].node)
           /\ EqualOffsets(Spans[i])
           /\ NoChildStartsEarlier(Spans[i])
           /\ Spans[i].EndTime = TsPlusNanos(Spans[i].StartTime, 1)

\* C9 as stated: the span ids of one document are pairwise distinct for
\* every sequence of values the random source returns.
C9_SpanIdsDistinct ==
    Converted =>
        \A i, j \in SpanIndices : i # j => Spans[i].SpanId # Spans[j].SpanId

\* The values the random source returned to the generateSpanId calls of the
\* document (the first two went to generateTraceId) are pairwise distinct.
SpanIdDrawsDistinct ==
    \A a, b \in 3 .. Len(rnd) : a # b => rnd[a] # rnd[b]

\* C9 amended: the span ids of one document are pairwise distinct whenever
\* the values the random source returns to that document's generateSpanId
\* calls are pairwise distinct.
C9_SpanIdsDistinctForDistinctDraws ==
    (Converted /\ SpanIdDrawsDistinct) =>
        \A i, j \in SpanIndices : i # j => Spans[i].SpanId # Spans[j].SpanId

C9_Witness ==
    /\ Converted
    /\ SpanIdDrawsDistinct
    /\ Len(Spans) = 4
    /\ rnd[1] = rnd[3]

-----------------------------------------------------------------------------
(* The receiver: StartTraceReception, StopTraceReception and the steps of  *)
(* ProcessExecutionPlan.  A row of the result set is <<kind, message>>: kind *)
(* "scanfail" when rows.Scan fails on it, "badjson" when json.Unmarshal    *)
(* fails on its text, "json" when the text decodes to message.             *)

NoRow == <<"none", Null>>
ScanFailRow == <<"scanfail", Null>>
BadJsonRow == <<"badjson", Null>>
JsonRow(message) == <<"json", message>>
KindOf(row) == row[1]
MessageOf(row) == row[2]

\* The object m without one of its keys, and with one of its values replaced.
Without(m, key) == Obj([k \in (DOMAIN m.v) \ {key} |-> m.v[k]])
With(m, key, val) == Obj([k \in DOMAIN m.v |-> IF k = key THEN val ELSE m.v[k]])

LeafDocument == Document(4, 1, PlanNode(0, 1, <<>>))
NestedDocument == Document(4, 1, PlanNode(1, 1, <<PlanNode(0, 1, <<>>)>>))

WellFormedMessages == {LeafDocument, NestedDocument}

MalformedMessages ==
    {Without(LeafDocument, "username"),
     With(LeafDocument, "username", Num(7)),
     With(LeafDocument, "Plan", Null),
     With(LeafDocument, "Plan", Without(PlanNode(0, 1, <<>>), "Actual Rows")),
     With(LeafDocument, "Plan", PlanNode(1, 1, <<Str("Seq Scan")>>)),
     Arr(<<>>)}

\* Whether parseExecutionPlan panics on the message of a row; the outcome of
\* the type assertions does not depend on the random stream.
IsMalformed(row) ==
    /\ KindOf(row) = "json"
    /\ parseExecutionPlan(MessageOf(row), CountingStream(3 + MaxNodes)).panic

\* The random source as the receiver sees it: the values drawn for one
\* document are all distinct, or all the same.
ReceiverStreams(n) == {CountingStream(n), [i \in 1 .. n |-> 0]}

\* The body of the loop spawning the call (go pgr.ProcessExecutionPlan)
\* instead of waiting for it: the loop is at the receive at once.
LoopAtRangeDetached(l) == TRUE

\* Lines 160-162: the body of the range loop calls ProcessExecutionPlan and
\* waits for it; the loop is back at the channel receive only when its call
\* is not in flight.
LoopAtRange(l) == running[l] = 0

\* Lines 158-166: a polling goroutine with a ticker of its own is spawned,
\* at every call (nothing keeps a second call from spawning a second one).
StartTraceReception ==
    /\ proc = "running"
    /\ started < MaxLoops
    /\ started' = started + 1
    /\ UNCHANGED <<proc, dbOpen, tickPending, running, execPc, nRows, rec,
                   batch, sinkCalls, parseVars, pushVars>>

\* Lines 168-170: the database handle is closed.
StopTraceReception ==
    /\ proc = "running"
    /\ dbOpen
    /\ dbOpen' = FALSE
    /\ UNCHANGED <<started, proc, tickPending, running, execPc, nRows, rec,
                   batch, sinkCalls, parseVars, pushVars>>

\* The ticker of goroutine l's time.Tick(pullInterval) fires: the tick goes
\* into the one-slot channel, or is dropped when the slot is taken.
TimerFires(l) ==
    /\ l <= started
    /\ proc = "running"
    /\ tickPending' = [tickPending EXCEPT ![l] = TRUE]
    /\ UNCHANGED <<started, proc, dbOpen, running, execPc, nRows, rec, batch,
                   sinkCalls, parseVars, pushVars>>

\* Lines 160-161: loop l receives a tick and calls ProcessExecutionPlan.
LoopReceivesTick(l) ==
    /\ l <= started
    /\ proc = "running"
    /\ tickPending[l]
    /\ LoopAtRange(l)
    /\ tickPending' = [tickPending EXCEPT ![l] = FALSE]
    /\ running' = [running EXCEPT ![l] = @ + 1]
    /\ execPc' = [execPc EXCEPT ![l] = "query"]
    /\ nRows' = [nRows EXCEPT ![l] = 0]
    /\ rec' = [rec EXCEPT ![l] = NoRow]
    /\ UNCHANGED <<started, proc, dbOpen, batch, sinkCalls, parseVars, pushVars>>

\* Lines 173-177: db.Query fails (always once the database is closed) and
\* log.Fatal ends the process, or it returns the rows.
QueryFails(l) ==
    /\ proc = "running"
    /\ execPc[l] = "query"
    /\ proc' = "fatal"
    /\ UNCHANGED <<started, dbOpen, tickPending, running, execPc, nRows, rec,
                   batch, sinkCalls, parseVars, pushVars>>

QueryReturnsRows(l) ==
    /\ proc = "running"
    /\ execPc[l] = "query"
    /\ dbOpen
    /\ execPc' = [execPc EXCEPT ![l] = "next"]
    /\ UNCHANGED <<started, proc, dbOpen, tickPending, running, nRows, rec,
                   batch, sinkCalls, parseVars, pushVars>>

\* Lines 179-205, one iteration up to the call of ProcessTraceData: the row
\* is scanned and decoded (a failure of either skips the row), converted by
\* parseExecutionPlan (a failed type assertion panics: nothing recovers, the
\* process ends) and the batch is handed to nextProcessor.
RowsNext(l, row, r) ==
    /\ proc = "running"
    /\ execPc[l] = "next"
    /\ nRows[l] < MaxRows
    /\ nRows' = [nRows EXCEPT ![l] = @ + 1]
    /\ rec' = [rec EXCEPT ![l] = row]
    /\ IF KindOf(row) # "json"
       THEN UNCHANGED <<proc, execPc, batch, sinkCalls>>
       ELSE LET spans == parseExecutionPlan(MessageOf(row), r)
            IN  IF spans.panic
                THEN /\ proc' = "panicked"
                     /\ UNCHANGED <<execPc, batch, sinkCalls>>
                ELSE /\ batch' = [batch EXCEPT ![l] = spans.spans]
                     /\ sinkCalls' = [sinkCalls EXCEPT ![l] = @ + 1]
                     /\ execPc' = [execPc EXCEPT ![l] = "sink"]
                     /\ UNCHANGED proc
    /\ UNCHANGED <<started, dbOpen, tickPending, running, parseVars, pushVars>>

\* Line 205: ProcessTraceData returns; its result is dropped.
SinkReturns(l) ==
    /\ proc = "running"
    /\ execPc[l] = "sink"
    /\ batch' = [batch EXCEPT ![l] = <<>>]
    /\ sinkCalls' = [sinkCalls EXCEPT ![l] = @ - 1]
    /\ execPc' = [execPc EXCEPT ![l] = "next"]
    /\ UNCHANGED <<started, proc, dbOpen, tickPending, running, nRows, rec,
                   parseVars, pushVars>>

\* Lines 179 and 207: rows.Next() reports no further row; the call returns.
RowsEnd(l) ==
    /\ proc = "running"
    /\ execPc[l] = "next"
    /\ execPc' = [execPc EXCEPT ![l] = "idle"]
    /\ running' = [running EXCEPT ![l] = @ - 1]
    /\ UNCHANGED <<started, proc, dbOpen, tickPending, nRows, rec, batch,
                   sinkCalls, parseVars, pushVars>>

Init == RecvIdle /\ ParseIdle /\ PushIdle

Next ==
    \/ StartTraceReception
    \/ StopTraceReception
    \/ \E l \in Loops : TimerFires(l)
    \/ \E l \in Loops : LoopReceivesTick(l)
    \/ \E l \in Loops : QueryFails(l)
    \/ \E l \in Loops : QueryReturnsRows(l)
    \/ \E l \in Loops : \E row \in {ScanFailRow, BadJsonRow} :
           RowsNext(l, row, <<>>)
    \/ \E l \in Loops : \E m \in MalformedMessages :
           RowsNext(l, JsonRow(m), CountingStream(3 + MaxNodes))
    \/ \E l \in Loops : \E m \in WellFormedMessages :
           \E r \in ReceiverStreams(3 + NodeCount(m.v["Plan"])) :
               RowsNext(l, JsonRow(m), r)
    \/ \E l \in Loops : SinkReturns(l)
    \/ \E l \in Loops : RowsEnd(l)

Spec == Init /\ [][Next]_vars

\* C3: a row whose document lacks a required field, or has it with the
\* wrong type, is skipped: none of its spans reaches the sink and the
\* polling loop keeps running, so that the later rows of the tick are
\* converted and handed to the sink.
C3_MalformedRowIsSkipped ==
    \A l \in Loops :
        IsMalformed(rec[l]) => (proc = "running" /\ batch[l] = <<>>)

RECURSIVE SumUpTo(_, _)
SumUpTo(f, n) == IF n = 0 THEN 0 ELSE f[n] + SumUpTo(f, n - 1)

\* Each polling goroutine taken by itself is sequential: at most one of its
\* executions of ProcessExecutionPlan is in flight, and within the execution
\* at most one call of ProcessTraceData; rows are taken only between such
\* calls.
EachLoopSequential ==
    \A l \in Loops :
        /\ running[l] <= 1
        /\ sinkCalls[l] <= 1
        /\ (execPc[l] # "idle") <=> (running[l] = 1)
        /\ (sinkCalls[l] = 1) <=> (execPc[l] = "sink")

\* C10: after StartTraceReception at most one execution of
\* ProcessExecutionPlan is in flight at any time: a tick fired while the
\* execution converts rows or waits in the sink's ProcessTraceData starts no
\* second, overlapping execution, and within the execution rows are
\* converted and handed to the sink one after another.  (A further call of
\* StartTraceReception spawns a further goroutine, sequential in the same
\* way by itself.)
C10_OneTickInFlight ==
    /\ EachLoopSequential
    /\ started = 1 =>
           /\ SumUpTo(running, MaxLoops) <= 1
           /\ SumUpTo(sinkCalls, MaxLoops) <= 1

\* A tick is waiting in the channel while the execution of the one started
\* loop has handed the spans of its second row to the sink.
C10_Witness ==
    /\ started = 1
    /\ tickPending[1]
    /\ running[1] = 1
    /\ execPc[1] = "sink"
    /\ sinkCalls[1] = 1
    /\ nRows[1] = 2
    /\ Len(batch[1]) = 3

-----------------------------------------------------------------------------
(* The exporter wrapper: ProcessTraceData and                              *)
(* PushOcProtoSpansToOCTraceExporter, on one batch.  conv says for which   *)
(* spans spandatatranslator.ProtoSpanToOCSpanData succeeds.                *)

\* The spans a batch is made of: the spans of one document, and one of them
\* with another TraceId slice: nil, empty with room for 16 bytes
\* (make([]byte, 0, 16)), 8 bytes, and 8 bytes with room for 16
\* (make([]byte, 8, 16)).  TraceIdCap is the capacity of the slice in bytes.
PushSpans == parseExecutionPlan(NestedDocument, CountingStream(5)).spans
WithTraceId(span, id, capacity) ==
    [span EXCEPT !.TraceId = id, !.TraceIdCap = capacity]
PushSpanSet ==
    {PushSpans[i] : i \in 1 .. Len(PushSpans)}
    \cup {WithTraceId(PushSpans[1], <<>>, 0),
          WithTraceId(PushSpans[1], <<>>, 16),
          WithTraceId(PushSpans[1], <<1>>, 8),
          WithTraceId(PushSpans[1], <<1>>, 16)}

RECURSIVE SeqsUpTo(_, _)
SeqsUpTo(S, n) ==
    IF n = 0
    THEN {<<>>}
    ELSE SeqsUpTo(S, n - 1)
         \cup {Append(q, x) : q \in {p \in SeqsUpTo(S, n - 1) : Len(p) = n - 1},
                              x \in S}

\* spandatatranslator.ProtoSpanToOCSpanData(span): the span data, or an error.
ProtoSpanToOCSpanData(span) ==
    IF conv[span]
    THEN [sd |-> [SpanData |-> span], err |-> "nil"]
    ELSE [sd |-> Null, err |-> "error"]

\* internal.CombineErrors(errs): nil for no error, else one error for all.
CombineErrors(es) == IF es = <<>> THEN "nil" ELSE "error"

\* Lines 58-75: ProcessTraceData starts its own (never sampled) span and
\* calls PushOcProtoSpansToOCTraceExporter; the deferred function ends the
\* span and recovers nothing.
ProcessTraceData ==
    /\ pushPc = "call"
    /\ pushPc' = "loop"
    /\ idx' = 1
    /\ UNCHANGED <<td, conv, exported, goodSpans, errs, ret, parseVars, recvVars>>

\* Lines 85-94: one iteration of the range loop over td.Spans.
PushLoop ==
    /\ pushPc = "loop"
    /\ idx <= Len(td)
    /\ LET span == td[idx]
           res == ProtoSpanToOCSpanData(span)
       IN  IF res.err = "nil"
           THEN /\ exported' = Append(exported, res.sd)
                /\ goodSpans' = Append(goodSpans, span)
                /\ UNCHANGED errs
           ELSE /\ errs' = Append(errs, res.err)
                /\ UNCHANGED <<exported, goodSpans>>
    /\ idx' = idx + 1
    /\ UNCHANGED <<td, conv, ret, pushPc, parseVars, recvVars>>

\* Lines 96-98: goodSpans[0].TraceId[0:8] and [8:16] are read for the log
\* line: an index out of range when no span converted, slice bounds out of
\* range when the capacity of the trace id (the upper bound of a slice
\* expression, whatever the length) is below 16 bytes.
LogLinePanics(good) == Len(good) = 0 \/ good[1].TraceIdCap < 16

\* Lines 95-100: after the loop the log lines are written and the combined
\* error is returned.
PushReturn ==
    /\ pushPc = "loop"
    /\ idx > Len(td)
    /\ ret' = IF LogLinePanics(goodSpans) THEN "panic" ELSE CombineErrors(errs)
    /\ pushPc' = "done"
    /\ UNCHANGED <<td, conv, idx, exported, goodSpans, errs, parseVars, recvVars>>

InitPush ==
    /\ td \in SeqsUpTo(PushSpanSet, MaxBatch)
    /\ conv \in [PushSpanSet -> BOOLEAN]
    /\ idx = 0
    /\ exported = <<>>
    /\ goodSpans = <<>>
    /\ errs = <<>>
    /\ ret = "none"
    /\ pushPc = "call"
    /\ ParseIdle /\ RecvIdle

NextPush == ProcessTraceData \/ PushLoop \/ PushReturn

SpecPush == InitPush /\ [][NextPush]_vars

\* The span data of the spans of a batch that convert, in batch order.
RECURSIVE Converting(_)
Converting(spans) ==
    IF spans = <<>>
    THEN <<>>
    ELSE (IF conv[Head(spans)] THEN <<[SpanData |-> Head(spans)]>> ELSE <<>>)
         \o Converting(Tail(spans))

SomeSpanFails == \E i \in 1 .. Len(td) : ~conv[td[i]]

\* C6: for every batch, the empty batch and the batch no span of which
\* converts included, the call returns normally, with nil or with an error.
C6_PushAlwaysReturns ==
    pushPc = "done" => ret \in {"nil", "error"}

\* C7: when the call is over, exactly the spans that convert were passed to
\* ExportSpan, once each and in batch order, and the call returned a
\* non-nil error if and only if some span of the batch failed to convert.
C7_BestEffortPerSpan ==
    pushPc = "done" =>
        /\ exported = Converting(td)
        /\ (ret = "error") <=> SomeSpanFails

====
